---- MODULE Spec2Model ----
(***************************************************************************)
(* Model of the Emitter event source adapter                               *)
(* (eventsources/sources/emitter/start.go).                                *)
(*                                                                         *)
(* One controller process runs EventListener.StartListening; the emitter   *)
(* client invokes the message callback handed to client.Subscribe on its   *)
(* own goroutines, one invocation per inbound message, concurrently with   *)
(* the controller and with each other.                                     *)
(***************************************************************************)
EXTENDS Integers, Sequences, FiniteSets, TLC

\* ------------------------------------------------------------------ bounds
\* Number of inbound messages the broker may deliver in one run.
MaxMsgs == 2
\* Number of connect attempts the connection backoff allows (Backoff.Steps).
BackoffSteps == 2
\* Number of invocations of StartListening on one EventListener.
MaxRuns == 2
\* Longest payload handed to json.Marshal on its own.
MaxPayloadLen == 2

\* ------------------------------------------------------- descriptor values
Broker == "tcp://broker:8080"
ChannelName == "c"
ChannelKey == "k"
Metadata == "meta"

\* A payload is a sequence of bytes; three kinds of byte are told apart: a
\* space, a digit and a letter.
Bytes == {" ", "1", "x"}
\* All payloads of at most MaxPayloadLen bytes.
AllPayloads == UNION {[1..n -> Bytes] : n \in 0..MaxPayloadLen}
\* Payloads the broker may deliver in a run: a JSON number with leading
\* whitespace, and text that is not a JSON document.
Payloads == {<<" ", "1">>, <<"x">>}
Topics == {ChannelName, "c/sub"}

RECURSIVE TrimLeft(_)
TrimLeft(p) == IF p # <<>> /\ Head(p) = " " THEN TrimLeft(Tail(p)) ELSE p
Reverse(p) == [i \in 1..Len(p) |-> p[Len(p) + 1 - i]]
Trim(p) == Reverse(TrimLeft(Reverse(TrimLeft(p))))
\* encoding/json's scanner over these bytes: a document is a number (digits)
\* with optional whitespace around it.
ValidJSON(p) == LET t == Trim(p) IN t # <<>> /\ \A i \in 1..Len(t) : t[i] = "1"
\* encoding/json compacts what a Marshaler returns: insignificant whitespace
\* is dropped.
Compact(p) == SelectSeq(p, LAMBDA c : c # " ")
\* encoding/json encodes a []byte as a base64 string; each byte is shown by the
\* first two characters of its own encoding.
Base64Of == [c \in Bytes |-> CASE c = " " -> "IA" [] c = "1" -> "MQ" [] c = "x" -> "eA"]
Base64(p) == [i \in 1..Len(p) |-> Base64Of[p[i]]]

\* v1alpha1.EmitterEventSource: which optional references are set (non-nil)
\* and the JSONBody flag.  Broker, channel and backoff are fixed above.
Descriptors == [TLS : BOOLEAN, Username : BOOLEAN, Password : BOOLEAN, JSONBody : BOOLEAN]

Msgs == 1..MaxMsgs

\* An error value is its chain of frames, outermost first; nil is the empty chain.
NilErr == <<>>
NewErr(msg, arg) == <<[msg |-> msg, arg |-> arg]>>
\* errors.Wrap / errors.Wrapf: a new outer frame around the cause.
Wrap(cause, msg, arg) == <<[msg |-> msg, arg |-> arg]>> \o cause
Cause(err) == Tail(err)

VARIABLES
    desc,        \* el.EmitterEventSource (immutable after construction)
    pc,          \* position of StartListening
    ret,         \* value returned by StartListening (NilErr until it returns an error)
    options,     \* the client options accumulated so far
    log,         \* calls StartListening has made on its collaborators, with their results
    subscribed,  \* the transport holds the callback for the channel
    cancelled,   \* ctx.Done() is closed
    delivered,   \* number of messages the transport has handed to the callback
    cb,          \* one record per callback invocation
    visited,     \* lifecycle states the adapter has been in (this invocation)
    connected,   \* the client of this invocation holds an open connection
    run,         \* number of invocations of StartListening on this instance
    pure         \* the last application of a pure function: its input and result

vars == <<desc, pc, ret, options, log, subscribed, cancelled, delivered, cb, visited,
          connected, run, pure>>

\* What one invocation of StartListening and its callbacks never change.
aux == <<run, pure>>

\* Lifecycle state of the adapter, from the position of StartListening.
LifecycleOf(p) ==
    CASE p = "Created" -> "Created"
      [] p \in {"TLS", "Username", "Password", "Connect", "Subscribe"} -> "Connecting"
      [] p = "Wait" -> "Subscribed"
      [] p = "Unsubscribe" -> "Unsubscribing"
      [] p = "Returned" -> "Stopped"

Lifecycle == LifecycleOf(pc)

\* A callback invocation that has not started.  calls: the dispatch and metrics
\* calls it has made, in order; arg: the bytes handed to dispatch; res: what
\* dispatch returned; in: the lifecycle state the adapter was in when it started.
IdleCb == [pc |-> "idle", payload |-> <<>>, calls |-> <<>>, res |-> "none",
           arg |-> <<>>, in |-> "none"]

Init ==
    /\ desc \in Descriptors
    /\ pc = "Created"
    /\ ret = NilErr
    /\ options = <<>>
    /\ log = <<>>
    /\ subscribed = FALSE
    /\ cancelled = FALSE
    /\ delivered = 0
    /\ cb = [m \in Msgs |-> IdleCb]
    /\ visited = {"Created"}
    /\ connected = FALSE
    /\ run = 1
    /\ pure = [fn |-> "none"]

\* ------------------------------------------------------------ controller
Goto(p, r) ==
    /\ pc' = p
    /\ ret' = r
    /\ visited' = visited \cup {LifecycleOf(p)}

Call(op, err) == log' = Append(log, [op |-> op, err |-> err])

\* Entry of StartListening.
Start ==
    /\ pc = "Created"
    /\ Goto("TLS", ret)
    /\ UNCHANGED <<desc, connected, aux, options, log, subscribed, cancelled, delivered, cb>>

\* A resolution step that ignores its error and goes on.
AfterResolve_Ignore(next, err, wrapped) == [pc |-> next, ret |-> NilErr]

\* lines 73-75, 82-84, 90-92: "if err != nil { return errors.Wrap(err, ...) }".
AfterResolve(next, err, wrapped) ==
    IF err = NilErr THEN [pc |-> next, ret |-> NilErr]
                    ELSE [pc |-> "Returned", ret |-> wrapped]

\* lines 71-78: TLS configuration, then the broker and auto-reconnect options.
ResolveTLS ==
    /\ pc = "TLS"
    /\ IF desc.TLS
         THEN \E ok \in BOOLEAN :
                LET err == IF ok THEN NilErr ELSE NewErr("GetTLSConfig", "")
                    to == AfterResolve("Username", err,
                              Wrap(err, "failed to get the tls configuration", ""))
                IN /\ Call("GetTLSConfig", err)
                   /\ Goto(to.pc, to.ret)
                   /\ options' = IF to.pc = "Returned" THEN options
                                 ELSE options \o <<"TLSConfig", "Brokers", "AutoReconnect">>
         ELSE /\ options' = options \o <<"Brokers", "AutoReconnect">>
              /\ Goto("Username", ret)
              /\ log' = log
    /\ UNCHANGED <<desc, connected, aux, subscribed, cancelled, delivered, cb>>

\* lines 80-86
ResolveUsername ==
    /\ pc = "Username"
    /\ IF desc.Username
         THEN \E ok \in BOOLEAN :
                LET err == IF ok THEN NilErr ELSE NewErr("GetSecretFromVolume", "username")
                    to == AfterResolve("Password", err,
                              Wrap(err, "failed to retrieve the username from", "username"))
                IN /\ Call("GetUsername", err)
                   /\ Goto(to.pc, to.ret)
                   /\ options' = IF to.pc = "Returned" THEN options
                                 ELSE Append(options, "Username")
         ELSE /\ options' = options
              /\ Goto("Password", ret)
              /\ log' = log
    /\ UNCHANGED <<desc, connected, aux, subscribed, cancelled, delivered, cb>>

\* lines 88-101: the password, then the client is created from the options.
ResolvePassword ==
    /\ pc = "Password"
    /\ IF desc.Password
         THEN \E ok \in BOOLEAN :
                LET err == IF ok THEN NilErr ELSE NewErr("GetSecretFromVolume", "password")
                    to == AfterResolve("Connect", err,
                              Wrap(err, "failed to retrieve the password from", "password"))
                IN /\ Call("GetPassword", err)
                   /\ Goto(to.pc, to.ret)
                   /\ options' = IF to.pc = "Returned" THEN options
                                 ELSE Append(options, "Password")
         ELSE /\ options' = options
              /\ Goto("Connect", ret)
              /\ log' = log
    /\ UNCHANGED <<desc, connected, aux, subscribed, cancelled, delivered, cb>>

\* The calls of one kind made so far.
Calls(op) == SelectSeq(log, LAMBDA c : c.op = op)

\* common.Connect: the error returned once the backoff is exhausted carries
\* the last attempt's failure.
BackoffExhausted(last) == Wrap(last, "timed out waiting for the condition", "")

\* The connection error built without its cause and naming the channel.
ConnectError_Bare(err) == NewErr("failed to connect to", ChannelName)

\* line 109: errors.Wrapf(err, "failed to connect to %s", emitterEventSource.Broker)
ConnectError(err) == Wrap(err, "failed to connect to", Broker)

\* A connect error that is swallowed: StartListening stays where it is.
AfterConnect_Stay(err) ==
    IF err = NilErr THEN [pc |-> "Subscribe", ret |-> NilErr]
                    ELSE [pc |-> "Connect", ret |-> NilErr]

\* lines 103-110: "if err := common.Connect(...); err != nil { return ... }".
AfterConnect(err) ==
    IF err = NilErr THEN [pc |-> "Subscribe", ret |-> NilErr]
                    ELSE [pc |-> "Returned", ret |-> ConnectError(err)]

\* lines 103-110: one attempt of the connect closure under common.Connect, which
\* returns nil at the first success and its terminal error after the last
\* attempt the backoff allows.
ConnectAttempt ==
    /\ pc = "Connect"
    /\ Len(Calls("Connect")) < BackoffSteps
    /\ \E ok \in BOOLEAN :
         LET n == Len(Calls("Connect")) + 1
             err == IF ok THEN NilErr ELSE NewErr("dial", ToString(n))
             to == AfterConnect(IF ok THEN NilErr ELSE BackoffExhausted(err))
         IN /\ Call("Connect", err)
            /\ connected' = ok
            /\ IF ok \/ n = BackoffSteps
                 THEN Goto(to.pc, to.ret)
                 ELSE Goto(pc, ret)
    /\ UNCHANGED <<desc, aux, options, subscribed, cancelled, delivered, cb>>

\* A subscribe whose error is dropped.
AfterSubscribe_Ignore(err) == [pc |-> "Wait", ret |-> NilErr]

\* lines 138-140: a subscribe error is wrapped and returned.
AfterSubscribe(err) ==
    IF err = NilErr
      THEN [pc |-> "Wait", ret |-> NilErr]
      ELSE [pc |-> "Returned", ret |-> Wrap(err, "failed to subscribe to channel", ChannelName)]

\* A subscribe that leaves the callback registered when it fails.
Register_Always(ok) == TRUE

\* line 112: the callback is registered for the channel when client.Subscribe
\* succeeds.
Register(ok) == ok

\* line 112: client.Subscribe registers the callback or fails.
Subscribe ==
    /\ pc = "Subscribe"
    /\ \E ok \in BOOLEAN :
         LET err == IF ok THEN NilErr ELSE NewErr("subscribe", ChannelName)
             to == AfterSubscribe(err)
         IN /\ Call("Subscribe", err)
            /\ subscribed' = Register(ok)
            /\ Goto(to.pc, to.ret)
    /\ UNCHANGED <<desc, connected, aux, options, cancelled, delivered, cb>>

\* The callbacks that have started and not finished.
InFlight == {m \in Msgs : cb[m].pc \in {"dispatch", "defer"}}

\* A wait that does not wait for the context.
CtxDone_NoWait == TRUE

\* A wait that also waits for the callbacks in flight.
CtxDone_Drain == cancelled /\ InFlight = {}

\* line 142: <-ctx.Done()
CtxDone == cancelled

AwaitDone ==
    /\ pc = "Wait"
    /\ CtxDone
    /\ Goto("Unsubscribe", ret)
    /\ UNCHANGED <<desc, connected, aux, options, log, subscribed, cancelled, delivered, cb>>

\* An unsubscribe error that is returned.
UnsubscribeReturn_Err(err) ==
    IF err = NilErr THEN NilErr ELSE Wrap(err, "failed to unsubscribe", ChannelName)

\* lines 146-150: the unsubscribe error is only logged; the result is nil.
UnsubscribeReturn(err) == NilErr

\* An unsubscribe that leaves the callback registered.
Unregister_Keep(ok, cur) == cur

\* line 146: client.Unsubscribe removes the subscription when it succeeds; a
\* failed unsubscribe leaves it as it was.
Unregister(ok, cur) == IF ok THEN FALSE ELSE cur

\* An unsubscribe that is tried a second time when it fails.
Unsubscribe_Retry ==
    /\ pc = "Unsubscribe"
    /\ \E ok \in BOOLEAN :
         LET err == IF ok THEN NilErr ELSE NewErr("unsubscribe", ChannelName)
             again == ~ok /\ Len(Calls("Unsubscribe")) = 0
         IN /\ Call("Unsubscribe", err)
            /\ subscribed' = Unregister(ok, subscribed)
            /\ IF again THEN Goto("Unsubscribe", ret)
                         ELSE Goto("Returned", UnsubscribeReturn(err))
    /\ UNCHANGED <<desc, connected, aux, options, cancelled, delivered, cb>>

\* lines 146-148: client.Unsubscribe is called once, after the wait.
Unsubscribe ==
    /\ pc = "Unsubscribe"
    /\ \E ok \in BOOLEAN :
         LET err == IF ok THEN NilErr ELSE NewErr("unsubscribe", ChannelName)
         IN /\ Call("Unsubscribe", err)
            /\ subscribed' = Unregister(ok, subscribed)
            /\ Goto("Returned", UnsubscribeReturn(err))
    /\ UNCHANGED <<desc, connected, aux, options, cancelled, delivered, cb>>

\* The owner cancels the context; this can happen at any time.
Cancel ==
    /\ ~cancelled
    /\ cancelled' = TRUE
    /\ UNCHANGED <<desc, connected, aux, pc, ret, options, log, subscribed, delivered, cb, visited>>

\* ------------------------------------------------------ message callback
\* lines 117-125: the event built from a message.
NewEvent(topic, body, d) ==
    [Topic |-> topic,
     Body |-> IF d.JSONBody THEN [kind |-> "RawMessage", data |-> body]
                            ELSE [kind |-> "bytes", data |-> body],
     Metadata |-> Metadata]

\* json.Marshal that takes a body for JSON whenever it parses as JSON.
MarshalEvent_Sniff(ev) ==
    [err |-> FALSE,
     bytes |-> <<[topic |-> ev.Topic,
                  body |-> IF ValidJSON(ev.Body.data)
                             THEN <<"json", Compact(ev.Body.data)>>
                             ELSE <<"string", Base64(ev.Body.data)>>,
                  metadata |-> ev.Metadata]>>]

\* json.Marshal that checks the body in both modes.
MarshalEvent_Validate(ev) ==
    IF ~ValidJSON(ev.Body.data)
      THEN [err |-> TRUE, bytes |-> <<>>]
      ELSE [err |-> FALSE,
            bytes |-> <<[topic |-> ev.Topic,
                         body |-> IF ev.Body.kind = "RawMessage"
                                    THEN <<"json", Compact(ev.Body.data)>>
                                    ELSE <<"string", Base64(ev.Body.data)>>,
                         metadata |-> ev.Metadata]>>]

\* line 126: json.Marshal(event).  A json.RawMessage body must be a valid JSON
\* document and is embedded compacted; a []byte body becomes a base64 string.
MarshalEvent(ev) ==
    IF ev.Body.kind = "RawMessage" /\ ~ValidJSON(ev.Body.data)
      THEN [err |-> TRUE, bytes |-> <<>>]
      ELSE [err |-> FALSE,
            bytes |-> <<[topic |-> ev.Topic,
                         body |-> IF ev.Body.kind = "RawMessage"
                                    THEN <<"json", Compact(ev.Body.data)>>
                                    ELSE <<"string", Base64(ev.Body.data)>>,
                         metadata |-> ev.Metadata]>>]

\* A callback whose marshalled bytes live in a buffer shared by all callbacks:
\* a new message overwrites the bytes of the callbacks still waiting to dispatch.
OnMessage_Shared(p) ==
    /\ subscribed
    /\ delivered < MaxMsgs
    /\ LET m == delivered + 1
           r == MarshalEvent(NewEvent(ChannelName, p, desc))
       IN /\ delivered' = m
          /\ cb' = [n \in Msgs |->
                      IF n = m
                        THEN [cb[n] EXCEPT !.payload = p,
                                           !.in = Lifecycle,
                                           !.pc = IF r.err THEN "defer" ELSE "dispatch",
                                           !.arg = r.bytes,
                                           !.calls = IF r.err THEN <<"EventProcessingFailed">>
                                                              ELSE <<>>]
                        ELSE IF cb[n].pc = "dispatch" THEN [cb[n] EXCEPT !.arg = r.bytes]
                                                      ELSE cb[n]]
    /\ UNCHANGED <<desc, connected, aux, pc, ret, options, log, subscribed, cancelled, visited>>

\* lines 112-132: the transport invokes the callback for the next message; the
\* callback builds and marshals the event, and on a marshal error records the
\* failure and returns (its deferred call still pending).
OnMessage(p) ==
    /\ subscribed
    /\ delivered < MaxMsgs
    /\ LET m == delivered + 1
           r == MarshalEvent(NewEvent(ChannelName, p, desc))
       IN /\ delivered' = m
          /\ cb' = [cb EXCEPT ![m] =
                      [@ EXCEPT !.payload = p,
                                !.in = Lifecycle,
                                !.pc = IF r.err THEN "defer" ELSE "dispatch",
                                !.arg = r.bytes,
                                !.calls = IF r.err THEN <<"EventProcessingFailed">> ELSE <<>>]]
    /\ UNCHANGED <<desc, connected, aux, pc, ret, options, log, subscribed, cancelled, visited>>

\* A dispatch error that is not recorded.
DispatchCalls_Silent(ok) == <<"dispatch">>

\* lines 134-137: the dispatch call, and EventProcessingFailed when it fails.
DispatchCalls(ok) ==
    IF ok THEN <<"dispatch">> ELSE <<"dispatch", "EventProcessingFailed">>

\* A dispatch error that ends the listener with that error.
Dispatch_Propagate(m) ==
    /\ cb[m].pc = "dispatch"
    /\ \E ok \in BOOLEAN :
         /\ cb' = [cb EXCEPT ![m] =
                     [@ EXCEPT !.pc = "defer",
                               !.res = IF ok THEN "nil" ELSE "err",
                               !.calls = @ \o DispatchCalls(ok)]]
         /\ IF ok THEN UNCHANGED <<pc, ret, visited>>
                  ELSE Goto("Returned", NewErr("dispatch", ""))
    /\ UNCHANGED <<desc, connected, aux, options, log, subscribed, cancelled, delivered>>

\* lines 133-137: dispatch(eventBytes); a dispatch error is logged and recorded.
Dispatch(m) ==
    /\ cb[m].pc = "dispatch"
    /\ \E ok \in BOOLEAN :
         cb' = [cb EXCEPT ![m] =
                  [@ EXCEPT !.pc = "defer",
                            !.res = IF ok THEN "nil" ELSE "err",
                            !.calls = @ \o DispatchCalls(ok)]]
    /\ UNCHANGED <<desc, connected, aux, pc, ret, options, log, subscribed, cancelled, delivered, visited>>

\* A duration that is recorded only when nothing failed.
Deferred_OnlyOnSuccess(m) ==
    /\ cb[m].pc = "defer"
    /\ cb' = [cb EXCEPT ![m] =
                [@ EXCEPT !.pc = "done",
                          !.calls = IF Len(SelectSeq(@, LAMBDA c : c = "EventProcessingFailed")) > 0
                                      THEN @ ELSE Append(@, "EventProcessingDuration")]]
    /\ UNCHANGED <<desc, connected, aux, pc, ret, options, log, subscribed, cancelled, delivered, visited>>

\* lines 113-115: the deferred EventProcessingDuration call.
Deferred(m) ==
    /\ cb[m].pc = "defer"
    /\ cb' = [cb EXCEPT ![m] =
                [@ EXCEPT !.pc = "done", !.calls = Append(@, "EventProcessingDuration")]]
    /\ UNCHANGED <<desc, connected, aux, pc, ret, options, log, subscribed, cancelled, delivered, visited>>

\* A further invocation of StartListening on the same EventListener after the
\* previous one returned: the receiver holds only configuration, so the new
\* invocation starts from the same descriptor, with fresh locals (options,
\* client) and the context it is given.  The client of the previous invocation
\* is out of reach; deliveries it might still make are left out here.
Restart ==
    /\ pc = "Returned"
    /\ run < MaxRuns
    /\ run' = run + 1
    /\ pc' = "TLS"
    /\ ret' = NilErr
    /\ options' = <<>>
    /\ log' = <<>>
    /\ visited' = {"Connecting"}
    /\ connected' = FALSE
    /\ subscribed' = FALSE
    /\ cancelled' = FALSE
    /\ UNCHANGED <<desc, delivered, cb, pure>>

Next ==
    \/ Start
    \/ ResolveTLS
    \/ ResolveUsername
    \/ ResolvePassword
    \/ ConnectAttempt
    \/ Subscribe
    \/ AwaitDone
    \/ Unsubscribe
    \/ Cancel
    \/ \E p \in Payloads : OnMessage(p)
    \/ \E m \in Msgs : Dispatch(m)
    \/ \E m \in Msgs : Deferred(m)

Spec == Init /\ [][Next]_vars

\* The controller is a running goroutine and client.Unsubscribe returns.
FairSpec == Spec /\ WF_vars(AwaitDone) /\ WF_vars(Unsubscribe)

\* common.Connect keeps attempting until it succeeds or gives up.
ConnectFairSpec == Spec /\ WF_vars(ConnectAttempt)

\* The owner may invoke StartListening again on the same instance.
RestartNext ==
    \/ Next
    \/ Restart

RestartSpec == Init /\ [][RestartNext]_vars

\* -------------------------------------- gateways/core/file/config.go
\* Keys a configuration block may hold: the fields of fileWatcher (the inlined
\* WatchPathConfig and Type) and one key the struct does not know.
WatchPathKeys == {"directory", "path", "pathRegexp"}
StructKeys == WatchPathKeys \cup {"type"}
Keys == StructKeys \cup {"other"}
\* The watch path address and the path identifier.
RequiredKeys == {"directory", "path"}

\* What a key holds in a YAML mapping: nothing, a string, or a sequence.
YamlValues == {"absent", "string", "list"}
NoFields == [k \in Keys |-> "absent"]
\* Configuration blocks: the empty document, "null", text that is not YAML, a
\* bare scalar, and mappings over Keys.
Docs ==
    {[kind |-> k, fields |-> NoFields] : k \in {"empty", "null", "malformed", "scalar"}}
    \cup [kind : {"map"}, fields : [Keys -> YamlValues]]

NilConfig == [isNil |-> TRUE, fields |-> [k \in StructKeys |-> ""]]

\* line 43: yaml.Unmarshal([]byte(eventSource), &f) with f a nil *fileWatcher.
\* Text that is not YAML, a scalar document and a sequence in a string field are
\* errors; an empty or null document leaves f nil; a mapping allocates the
\* struct, sets the string fields present and ignores unknown keys.
YamlUnmarshal(doc) ==
    CASE doc.kind = "malformed" -> [err |-> TRUE, f |-> NilConfig]
      [] doc.kind = "scalar" -> [err |-> TRUE, f |-> NilConfig]
      [] doc.kind \in {"empty", "null"} -> [err |-> FALSE, f |-> NilConfig]
      [] doc.kind = "map" ->
           IF \E k \in StructKeys : doc.fields[k] = "list"
             THEN [err |-> TRUE, f |-> NilConfig]
             ELSE [err |-> FALSE,
                   f |-> [isNil |-> FALSE,
                          fields |-> [k \in StructKeys |->
                                        IF doc.fields[k] = "string" THEN "set" ELSE ""]]]

\* lines 41-48
parseEventSource(doc) ==
    LET r == YamlUnmarshal(doc)
    IN IF r.err THEN [cfg |-> NilConfig, err |-> TRUE]
                ELSE [cfg |-> r.f, err |-> FALSE]

ParseCall(doc) ==
    /\ pure' = [fn |-> "parseEventSource", in |-> doc, out |-> parseEventSource(doc)]
    /\ UNCHANGED <<desc, pc, ret, options, log, subscribed, cancelled, delivered, cb,
                   visited, connected, run>>

ParseNext == \E doc \in Docs : ParseCall(doc)

ParseSpec == Init /\ [][ParseNext]_vars

\* lines 117-126 on their own: the event of one message, marshalled.
MarshalCall(topic, p) ==
    /\ pure' = [fn |-> "Marshal", in |-> [topic |-> topic, payload |-> p],
                out |-> MarshalEvent(NewEvent(topic, p, desc))]
    /\ UNCHANGED <<desc, pc, ret, options, log, subscribed, cancelled, delivered, cb,
                   visited, connected, run>>

MarshalNext == \E topic \in Topics, p \in AllPayloads : MarshalCall(topic, p)

MarshalSpec == Init /\ [][MarshalNext]_vars

\* ------------------------------------------------------------ vocabulary
Count(seq, x) == Cardinality({i \in 1..Len(seq) : seq[i] = x})
Called(op) == Len(Calls(op)) > 0
Succeeded(op) == \E i \in 1..Len(log) : log[i].op = op /\ log[i].err = NilErr
Failed(op) == \E i \in 1..Len(log) : log[i].op = op /\ log[i].err # NilErr
\* The connect step failed: every attempt the backoff allows has failed.
ConnectExhausted == Len(Calls("Connect")) = BackoffSteps /\ ~Succeeded("Connect")
NoCallback == \A m \in Msgs : cb[m] = IdleCb
DispatchCount(m) == Count(cb[m].calls, "dispatch")
FailedCount(m) == Count(cb[m].calls, "EventProcessingFailed")

\* ---------------------------------------------------------------- claims
\* C1: the adapter reaches Subscribed if and only if both the connect step and
\* the subscribe step succeeded; when either step fails StartListening has
\* returned a non-nil error and no callback has run, so dispatch was never called.
C1_SubscribedIffBothSucceed ==
    /\ ("Subscribed" \in visited) <=> (Succeeded("Connect") /\ Succeeded("Subscribe"))
    /\ (ConnectExhausted \/ Failed("Subscribe")) =>
          (pc = "Returned" /\ ret # NilErr /\ NoCallback)

C1_Witness ==
    /\ Failed("Connect") /\ Succeeded("Connect") /\ Failed("Subscribe")
    /\ pc = "Returned" /\ ret # NilErr

\* C2 as stated: for every finished callback exactly one of "dispatch was called
\* once" and "EventProcessingFailed was called once" is true.
C2_ExactlyOneOfDispatchOrFailed ==
    \A m \in Msgs : cb[m].pc = "done" =>
        ((DispatchCount(m) = 1) # (FailedCount(m) = 1))

\* C2 amended: for every finished callback dispatch was called at most once and
\* EventProcessingFailed at most once; EventProcessingFailed was called exactly
\* when marshalling failed (and then dispatch was not called) or the dispatch
\* call returned an error; so exactly one of "dispatch was called once and
\* returned nil" and "EventProcessingFailed was called once" is true.
C2_SuccessXorFailureRecorded ==
    \A m \in Msgs : cb[m].pc = "done" =>
        /\ DispatchCount(m) <= 1
        /\ FailedCount(m) <= 1
        /\ (DispatchCount(m) = 0) <=> (cb[m].res = "none")
        /\ (FailedCount(m) = 1) <=> (DispatchCount(m) = 0 \/ cb[m].res = "err")
        /\ (DispatchCount(m) = 1 /\ cb[m].res = "nil") # (FailedCount(m) = 1)

C2_Witness ==
    \E m \in Msgs : /\ cb[m].pc = "done"
                    /\ cb[m].in = "Subscribed"
                    /\ DispatchCount(m) = 1
                    /\ FailedCount(m) = 1

\* C3 as stated: once the adapter is Unsubscribing (or Stopped after it), no
\* step is a dispatch call.
C3_NoDispatchAfterUnsubscribing ==
    [][("Unsubscribing" \in visited) =>
          \A m \in Msgs : Count(cb'[m].calls, "dispatch") = Count(cb[m].calls, "dispatch")]_vars

\* C3 amended: once the unsubscribe call has succeeded no new callback starts,
\* and every dispatch call is made by a callback that was already running; so
\* after Unsubscribing is entered dispatch can still be called, but only by
\* callbacks that started while the subscription was registered.
C3_NoNewCallbackAfterUnsubscribed ==
    [][/\ Succeeded("Unsubscribe") =>
             \A m \in Msgs : cb[m].pc = "idle" => cb'[m].pc = "idle"
       /\ \A m \in Msgs :
             Count(cb'[m].calls, "dispatch") > Count(cb[m].calls, "dispatch") =>
                 cb[m].pc = "dispatch"]_vars

C3_Witness ==
    /\ Succeeded("Unsubscribe")
    /\ pc = "Returned"
    /\ delivered < MaxMsgs
    /\ \E m \in Msgs : cb[m].pc = "dispatch"

\* C4: a step in which a callback records a failure (marshal or dispatch error)
\* changes neither the position, the lifecycle state or the result of
\* StartListening, nor the subscription, nor any other callback.
C4_FailureIsolated ==
    [][\A m \in Msgs :
          Count(cb'[m].calls, "EventProcessingFailed") > Count(cb[m].calls, "EventProcessingFailed") =>
              /\ pc' = pc /\ ret' = ret /\ visited' = visited
              /\ subscribed' = subscribed /\ log' = log
              /\ \A n \in Msgs \ {m} : cb'[n] = cb[n]]_vars

C4_Witness ==
    /\ pc = "Wait"
    /\ cb[1].pc = "done" /\ FailedCount(1) = 1
    /\ cb[2].pc = "done" /\ FailedCount(2) = 0 /\ DispatchCount(2) = 1

\* C5: StartListening returns nil only after Subscribed was reached and the
\* context was cancelled; it leaves Subscribed only when the context is
\* cancelled; a return before Subscribed carries a non-nil error.
C5_NilOnlyAfterSubscribedAndCancel ==
    /\ (pc = "Returned" /\ ret = NilErr) => ("Subscribed" \in visited /\ cancelled)
    /\ ("Subscribed" \in visited /\ pc # "Wait") => cancelled
    /\ (pc = "Returned" /\ "Subscribed" \notin visited) => ret # NilErr

C5_Witness ==
    /\ pc = "Returned" /\ ret = NilErr /\ "Subscribed" \in visited /\ cancelled

\* C6: after cancellation while Subscribed, StartListening returns nil whether
\* the unsubscribe succeeded or failed.
C6_UnsubscribeErrorNotReturned ==
    (pc = "Returned" /\ "Subscribed" \in visited) =>
        (Called("Unsubscribe") /\ ret = NilErr)

C6_Witness ==
    /\ pc = "Returned" /\ Failed("Unsubscribe") /\ ret = NilErr

\* C7: once the context is cancelled while the adapter is Subscribed,
\* StartListening eventually returns (checked under FairSpec).
C7_ShutdownLiveness == (cancelled /\ pc = "Wait") ~> (pc = "Returned")

C7_Witness ==
    /\ pc = "Returned" /\ Failed("Unsubscribe")
    /\ \E m \in Msgs : cb[m].pc = "dispatch"

\* C8: when every connect attempt the backoff allows has failed, StartListening
\* has returned an error whose outer frame names the broker address and whose
\* innermost frame is the last attempt's failure; subscribe and unsubscribe were
\* not called and no callback ran.
C8_ConnectFailure ==
    ConnectExhausted =>
        /\ pc = "Returned"
        /\ ret # NilErr
        /\ ret[1] = [msg |-> "failed to connect to", arg |-> Broker]
        /\ <<ret[Len(ret)]>> = Calls("Connect")[BackoffSteps].err
        /\ ~Called("Subscribe")
        /\ ~Called("Unsubscribe")
        /\ NoCallback

C8_Witness ==
    /\ ConnectExhausted /\ pc = "Returned" /\ Len(ret) = 3

\* The resolution calls the descriptor asks for, in the order of the code.
ExpectedResolution ==
    (IF desc.TLS THEN <<"GetTLSConfig">> ELSE <<>>)
    \o (IF desc.Username THEN <<"GetUsername">> ELSE <<>>)
    \o (IF desc.Password THEN <<"GetPassword">> ELSE <<>>)

ResolutionOps == {"GetTLSConfig", "GetUsername", "GetPassword"}
ResolutionCalls == SelectSeq(log, LAMBDA c : c.op \in ResolutionOps)

\* C9: the resolution calls made are a prefix of TLS, username, password (those
\* the descriptor sets); a failed one is the last call StartListening makes: it
\* has returned a non-nil error, with no connect, subscribe or unsubscribe call
\* and no callback; a connect is attempted only after all of them succeeded.
C9_ResolutionFailureAborts ==
    /\ Len(ResolutionCalls) <= Len(ExpectedResolution)
    /\ \A i \in 1..Len(ResolutionCalls) : ResolutionCalls[i].op = ExpectedResolution[i]
    /\ \A i \in 1..Len(log) :
          (log[i].op \in ResolutionOps /\ log[i].err # NilErr) =>
              /\ i = Len(log)
              /\ pc = "Returned"
              /\ ret # NilErr
              /\ Cause(ret) = log[i].err
              /\ NoCallback
    /\ Called("Connect") =>
          /\ Len(ResolutionCalls) = Len(ExpectedResolution)
          /\ \A i \in 1..Len(ResolutionCalls) : ResolutionCalls[i].err = NilErr

C9_Witness ==
    /\ Succeeded("GetTLSConfig") /\ Failed("GetUsername") /\ desc.Password
    /\ pc = "Returned" /\ ret # NilErr

C11_NotRestartable ==
    run > 1 => (~Called("Connect") /\ ~Called("Subscribe") /\ "Subscribed" \notin visited)

\* C12 as stated: when StartListening has returned after the cancellation
\* signal (through Unsubscribing), the connection made at startup is closed.
C12_ConnectionClosedOnReturn ==
    (pc = "Returned" /\ "Unsubscribing" \in visited) => ~connected

\* C13 as stated: once the context is cancelled, no step is a subscribe call.
C13_NoSubscribeAfterCancel ==
    [][cancelled => (log' = log \/ log'[Len(log')].op # "Subscribe")]_vars

\* C15: the connect step makes at most BackoffSteps attempts, and (under
\* ConnectFairSpec) it ends: either an attempt succeeded, or every attempt
\* failed and StartListening has returned a non-nil error.
C15_ConnectTerminates ==
    /\ [](Len(Calls("Connect")) <= BackoffSteps)
    /\ (pc = "Connect") ~>
          (\/ Succeeded("Connect")
           \/ (ConnectExhausted /\ pc = "Returned" /\ ret # NilErr))

C15_Witness ==
    /\ ConnectExhausted /\ pc = "Returned" /\ ret # NilErr
    /\ Len(Calls("Connect")) = BackoffSteps
    /\ \A i \in 1..BackoffSteps : Calls("Connect")[i].err # NilErr

\* A required field is missing from a configuration block.
MissingRequired(doc) ==
    doc.kind # "map" \/ \E k \in RequiredKeys : doc.fields[k] # "string"

\* C14 as stated: when a required field is missing parseEventSource returns an
\* error and no configuration, and it returns a nil error only when the required
\* fields are present.
C14_MissingFieldIsParseError ==
    pure.fn = "parseEventSource" =>
        /\ MissingRequired(pure.in) => (pure.out.err /\ pure.out.cfg.isNil)
        /\ ~pure.out.err => ~MissingRequired(pure.in)

\* What one callback does when it runs alone: the calls it makes for a payload,
\* given the descriptor and what dispatch answers.
SequentialCalls(d, p, res) ==
    IF MarshalEvent(NewEvent(ChannelName, p, d)).err
      THEN <<"EventProcessingFailed", "EventProcessingDuration">>
      ELSE IF res = "err"
             THEN <<"dispatch", "EventProcessingFailed", "EventProcessingDuration">>
             ELSE <<"dispatch", "EventProcessingDuration">>

\* C16: under every interleaving, the bytes a callback hands to dispatch are
\* those of its own message and the descriptor, a finished callback has made
\* exactly the calls it makes when run alone (for its payload and the answer of
\* its dispatch call), and a step of one callback changes no other callback.
C16_CallbacksIndependent ==
    /\ [](\A m \in Msgs : cb[m].pc # "idle" =>
            /\ cb[m].arg = MarshalEvent(NewEvent(ChannelName, cb[m].payload, desc)).bytes
            /\ cb[m].pc = "done" =>
                  cb[m].calls = SequentialCalls(desc, cb[m].payload, cb[m].res))
    /\ [][\A m \in Msgs : cb'[m] # cb[m] =>
             \A n \in Msgs \ {m} : cb'[n] = cb[n]]_vars

C16_Witness ==
    /\ cb[1].pc = "dispatch" /\ cb[2].pc = "dispatch"
    /\ cb[1].payload # cb[2].payload
    /\ cb[1].arg # cb[2].arg

\* The JSON value of a document: a number, known by its digits.
JSONValue(t) == [valid |-> ValidJSON(t), digits |-> Len(Trim(t))]
Base64Decode(t) == CHOOSE p \in AllPayloads : Base64(p) = t

\* C17: marshalling never fails with the flag disabled; in the marshalled
\* envelope the body is a JSON document exactly when the flag is enabled and a
\* base64 string exactly when it is disabled, whatever the payload; the JSON
\* body has the JSON value of the payload, the string decodes to the payload;
\* the topic is the message's and the metadata the descriptor's.
C17_JSONBodyFlagLaw ==
    pure.fn = "Marshal" =>
        /\ ~desc.JSONBody => ~pure.out.err
        /\ ~pure.out.err =>
              LET w == pure.out.bytes[1]
              IN /\ w.body[1] = IF desc.JSONBody THEN "json" ELSE "string"
                 /\ desc.JSONBody =>
                       /\ JSONValue(w.body[2]).valid
                       /\ JSONValue(w.body[2]) = JSONValue(pure.in.payload)
                 /\ ~desc.JSONBody => Base64Decode(w.body[2]) = pure.in.payload
                 /\ w.topic = pure.in.topic
                 /\ w.metadata = Metadata

C17_Witness ==
    /\ pure.fn = "Marshal"
    /\ ~desc.JSONBody
    /\ ValidJSON(pure.in.payload)
    /\ pure.in.payload # Compact(pure.in.payload)
    /\ ~pure.out.err

\* C18: a callback fails before dispatch only in JSON-body mode: with the flag
\* disabled every started callback reaches dispatch and calls it once; with the
\* flag enabled a payload that is not valid JSON gives no dispatch call and one
\* EventProcessingFailed call, and a valid one reaches dispatch.
C18_SerializationFailsOnlyInJSONMode ==
    \A m \in Msgs : cb[m].pc # "idle" =>
        /\ (~desc.JSONBody \/ ValidJSON(cb[m].payload)) =>
              /\ cb[m].pc = "dispatch" \/ DispatchCount(m) = 1
              /\ cb[m].pc = "done" => DispatchCount(m) = 1
        /\ (desc.JSONBody /\ ~ValidJSON(cb[m].payload)) =>
              /\ cb[m].pc \in {"defer", "done"}
              /\ DispatchCount(m) = 0
              /\ FailedCount(m) = 1

C18_Witness ==
    /\ desc.JSONBody
    /\ cb[1].pc = "done" /\ ~ValidJSON(cb[1].payload) /\ FailedCount(1) = 1
    /\ cb[2].pc = "done" /\ DispatchCount(2) = 1 /\ cb[2].res = "nil"

DurationCount(m) == Count(cb[m].calls, "EventProcessingDuration")

\* C19: a callback records EventProcessingDuration once, as its last call, on
\* every path, and not before it ends; when it recorded a failure, the duration
\* comes right after EventProcessingFailed.
C19_DurationOncePerCallback ==
    \A m \in Msgs :
        /\ cb[m].pc # "done" => DurationCount(m) = 0
        /\ cb[m].pc = "done" =>
              /\ DurationCount(m) = 1
              /\ cb[m].calls[Len(cb[m].calls)] = "EventProcessingDuration"
              /\ FailedCount(m) = 1 =>
                    cb[m].calls[Len(cb[m].calls) - 1] = "EventProcessingFailed"
              /\ (cb[m].res = "none" \/ cb[m].res = "err") => FailedCount(m) = 1

C19_Witness ==
    /\ cb[1].pc = "done" /\ cb[1].res = "none" /\ DurationCount(1) = 1
    /\ cb[2].pc = "done" /\ cb[2].res = "err" /\ DurationCount(2) = 1

\* C20: unsubscribe is attempted at most once; only after a successful
\* subscribe and after cancellation, as the last call of the invocation; never
\* after a failed resolution, connect or subscribe; and once StartListening
\* has returned, it was attempted exactly when subscribe had succeeded.
C20_UnsubscribeOnceAfterSubscribeAndCancel ==
    /\ Len(Calls("Unsubscribe")) <= 1
    /\ Called("Unsubscribe") =>
          /\ Succeeded("Subscribe")
          /\ cancelled
          /\ log[Len(log)].op = "Unsubscribe"
          /\ log[Len(log) - 1].op = "Subscribe"
          /\ pc = "Returned"
    /\ (ConnectExhausted \/ Failed("Subscribe") \/ Failed("GetTLSConfig")
          \/ Failed("GetUsername") \/ Failed("GetPassword")) => ~Called("Unsubscribe")
    /\ pc = "Returned" => (Called("Unsubscribe") <=> (Succeeded("Subscribe") /\ cancelled))

C20_Witness ==
    /\ pc = "Returned" /\ Called("Unsubscribe") /\ Succeeded("Subscribe") /\ cancelled
    /\ Failed("Connect")
====
